---- MODULE Spec2Model ----
(***************************************************************************)
(* Model of src/app.py: DatabaseTelegramBot, a polling relay that fetches  *)
(* pending rows from a database view, sends each one as a Telegram         *)
(* message and deletes the rows whose send succeeded.                      *)
(***************************************************************************)
EXTENDS Integers, Sequences, FiniteSets, TLC

\* ------------------------------------------------------------------ bounds
\* identifiers of the rows that may be pending in the view
MaxId == 2
\* a message is counted as sent at most this many times
MaxSends == 2
\* longest identifier list handed to delete_processed_records directly
MaxCallLen == 2

Ids == 1..MaxId

\* ----------------------------------------------------------------- helpers
Range(s) == {s[i] : i \in 1..Len(s)}

\* all orderings of a finite set, as sequences without repetition
Perms(S) == {s \in [1..Cardinality(S) -> S] : \A i, j \in 1..Cardinality(S) : s[i] = s[j] => i = j}

\* all sequences over S of length at most n
SeqsUpTo(S, n) == UNION {[1..k -> S] : k \in 0..n}

\* ----------------------------------------------------- environment, config
\* os.getenv(name) of an unset variable
NoneVal == <<"<None>">>

required_vars == <<"DB_SERVER", "DB_DATABASE", "DB_USERNAME", "DB_PASSWORD", "TELEGRAM_BOT_TOKEN", "TELEGRAM_CHAT_ID">>

\* values a required variable may have: unset, set to '', set to a text
RequiredSettings == {NoneVal, <<>>, <<"x">>}

\* values POLL_INTERVAL may have: unset, '15', '-5', '0', 'a', ''
PollSettings == {NoneVal, <<"1", "5">>, <<"-", "5">>, <<"0">>, <<"a">>, <<>>}

EnvNames == Range(required_vars) \cup {"POLL_INTERVAL"}

\* every environment the process may be started in
AllEnvs == {e \in [EnvNames -> RequiredSettings \cup PollSettings] : /\ e["POLL_INTERVAL"] \in PollSettings
                                                                     /\ \A i \in 1..Len(required_vars) : e[required_vars[i]] \in RequiredSettings}

\* os.getenv(name, default)
getenv(e, name, default) == IF e[name] = NoneVal THEN default ELSE e[name]

Digits == <<"0", "1", "2", "3", "4", "5", "6", "7", "8", "9">>

IsDigit(c) == \E d \in 1..Len(Digits) : Digits[d] = c

DigitVal(c) == (CHOOSE d \in 1..Len(Digits) : Digits[d] = c) - 1

RECURSIVE DigitsVal(_)
DigitsVal(s) == IF s = <<>> THEN 0 ELSE 10 * DigitsVal(SubSeq(s, 1, Len(s) - 1)) + DigitVal(s[Len(s)])

\* int(text): optional sign, then one or more decimal digits; ValueError otherwise
int(s) ==
  LET signed == s # <<>> /\ s[1] \in {"-", "+"}
      body == IF signed THEN Tail(s) ELSE s
  IN IF body # <<>> /\ \A i \in 1..Len(body) : IsDigit(body[i])
       THEN [ok |-> TRUE, val |-> IF signed /\ s[1] = "-" THEN 0 - DigitsVal(body) ELSE DigitsVal(body)]
       ELSE [ok |-> FALSE, val |-> 0]

NoError == [type |-> "none", missing |-> <<>>]

\* `not os.getenv(var)`: unset or empty
IsMissing(e, var) == e[var] = NoneVal \/ e[var] = <<>>

\* [var for var in required_vars if not os.getenv(var)]
missing_vars(e) == SelectSeq(required_vars, LAMBDA var : IsMissing(e, var))

_validate_config(e) ==
  IF missing_vars(e) # <<>>
    THEN [ok |-> FALSE, error |-> [type |-> "ValueError: Missing required environment variables", missing |-> missing_vars(e)]]
    ELSE [ok |-> TRUE, error |-> NoError]

\* DatabaseTelegramBot.__init__: the poll interval is parsed before the
\* required variables are validated
__init__(e) ==
  LET p == int(getenv(e, "POLL_INTERVAL", <<"3", "0">>))
  IN IF ~p.ok
       THEN [ok |-> FALSE, poll_interval |-> 0, error |-> [type |-> "ValueError: invalid literal for int()", missing |-> <<>>]]
       ELSE [ok |-> _validate_config(e).ok, poll_interval |-> p.val, error |-> _validate_config(e).error]

\* ------------------------------------------------------------------- rows
\* the row the view holds for identifier i: id, message_text, recipient, created_at
Row4(i) == <<i, "message_text", "recipient", "created_at">>

\* rows as the query of fetch_pending_messages selects them (four columns)
Rows4 == {Row4(i) : i \in Ids}

\* rows of any width, for a view whose query was modified (0 to 4 columns)
RowsAnyShape == {SubSeq(Row4(i), 1, n) : i \in Ids, n \in 0..4}

\* DatabaseTelegramBot.format_message: the text as its list of lines
format_message(record) ==
  IF Len(record) >= 4
    THEN << <<"<b>New Message</b>", "">>,
            <<"<b>ID:</b>", record[1]>>,
            <<"<b>To:</b>", record[3]>>,
            <<"<b>Message:</b>", record[2]>>,
            <<"<b>Time:</b>", record[4]>> >>
    ELSE << <<"<b>Record:</b>", record>> >>

Messages == {format_message(r) : r \in RowsAnyShape}

\* ------------------------------------------------------------------ state
VARIABLES
  env,             \* the process environment (os.environ)
  pc,              \* where the process is
  error,           \* the exception that ended the process, if any
  poll_interval,   \* self.poll_interval
  store,           \* rows in the table behind the view
  records,         \* process_messages: the fetched batch
  idx,             \* process_messages: position of the for loop in records
  successful_ids,  \* process_messages: identifiers whose send succeeded
  fetched,         \* history: what the fetch of the current cycle returned
  results,         \* history: send attempts of the current cycle, in order
  deleteCalls,     \* history: arguments of the delete calls of the current cycle
  dbops,           \* history: store operations of the current cycle
  log,             \* history: log lines of the current cycle
  unclosed,        \* history: connections opened in the current cycle and left open by their call
  slept,           \* history: the poll sleeps of run() since the last cycle
  sentCount        \* history: how often each message text was delivered

vars == <<env, pc, error, poll_interval, store, records, idx, successful_ids, fetched, results, deleteCalls, dbops, log, unclosed, slept, sentCount>>

locals == <<records, idx, successful_ids>>

history == <<fetched, results, deleteCalls, dbops, log, unclosed, slept>>

Line(level, text, arg) == [level |-> level, text |-> text, arg |-> <<arg>>]

\* ------------------------------------------------------------ data access
FetchOutcomes == {"ok", "connect_fail", "query_fail"}

\* number of occurrences of x in the sequence ops
CountOf(ops, x) == Cardinality({i \in 1..Len(ops) : ops[i] = x})

\* connections a call opened and did not close (lines 85 and 134 are the
\* only conn.close() and are skipped when a statement or the commit
\* raises); such a connection is closed only if the interpreter collects
\* the connection object when the call returns
StillOpen(ops, collected) == IF collected THEN 0 ELSE CountOf(ops, "connect") - CountOf(ops, "close")

\* fetch_pending_messages with the connection made outside its try: a
\* failed connection propagates to the caller
fetch_pending_messages_raises(outcome, order) ==
  CASE outcome = "connect_fail" ->
         [records |-> <<>>, ops |-> <<"connect_failed">>, raised |-> TRUE,
          log |-> <<Line("ERROR", "Failed to connect to database", 0)>>]
    [] outcome = "query_fail" ->
         [records |-> <<>>, ops |-> <<"connect", "select_failed">>, raised |-> FALSE,
          log |-> <<Line("INFO", "Database connection established successfully", 0), Line("ERROR", "Error fetching messages", 0)>>]
    [] OTHER ->
         [records |-> order, ops |-> <<"connect", "select", "close">>, raised |-> FALSE,
          log |-> <<Line("INFO", "Database connection established successfully", 0), Line("INFO", "Fetched pending messages", Len(order))>>]

\* DatabaseTelegramBot.fetch_pending_messages; order is the order in which
\* the store hands out its rows
fetch_pending_messages(outcome, order) ==
  CASE outcome = "connect_fail" ->
         [records |-> <<>>, ops |-> <<"connect_failed">>, raised |-> FALSE,
          log |-> <<Line("ERROR", "Failed to connect to database", 0), Line("ERROR", "Error fetching messages", 0)>>]
    [] outcome = "query_fail" ->
         [records |-> <<>>, ops |-> <<"connect", "select_failed">>, raised |-> FALSE,
          log |-> <<Line("INFO", "Database connection established successfully", 0), Line("ERROR", "Error fetching messages", 0)>>]
    [] OTHER ->
         [records |-> order, ops |-> <<"connect", "select", "close">>, raised |-> FALSE,
          log |-> <<Line("INFO", "Database connection established successfully", 0), Line("INFO", "Fetched pending messages", Len(order))>>]

DeleteOutcomes == {"ok", "connect_fail", "execute_fail", "commit_fail"}

\* the rows a committed DELETE ... WHERE id IN (record_ids) leaves in the table
RowsAfterDelete(st, record_ids) == {r \in st : ~(Len(r) >= 1 /\ r[1] \in Range(record_ids))}

\* delete_processed_records without its try/except: a failure propagates
delete_processed_records_raises(record_ids, outcome, st) ==
  IF record_ids = <<>>
    THEN [store |-> st, ops |-> <<>>, log |-> <<>>, raised |-> FALSE]
    ELSE CASE outcome = "connect_fail" ->
                [store |-> st, ops |-> <<"connect_failed">>, raised |-> TRUE,
                 log |-> <<Line("ERROR", "Failed to connect to database", 0)>>]
           [] outcome = "execute_fail" ->
                [store |-> st, ops |-> <<"connect", "delete_failed">>, raised |-> TRUE,
                 log |-> <<Line("INFO", "Database connection established successfully", 0)>>]
           [] outcome = "commit_fail" ->
                [store |-> st, ops |-> <<"connect", "delete", "commit_failed">>, raised |-> TRUE,
                 log |-> <<Line("INFO", "Database connection established successfully", 0)>>]
           [] OTHER ->
                [store |-> RowsAfterDelete(st, record_ids), ops |-> <<"connect", "delete", "commit", "close">>, raised |-> FALSE,
                 log |-> <<Line("INFO", "Database connection established successfully", 0),
                           Line("INFO", "Deleted processed records", Cardinality(st \ RowsAfterDelete(st, record_ids)))>>]

\* delete_processed_records on an autocommit connection: the rows are gone
\* although the commit failed
delete_processed_records_autocommit(record_ids, outcome, st) ==
  IF record_ids = <<>>
    THEN [store |-> st, ops |-> <<>>, log |-> <<>>, raised |-> FALSE]
    ELSE CASE outcome = "connect_fail" ->
                [store |-> st, ops |-> <<"connect_failed">>, raised |-> FALSE,
                 log |-> <<Line("ERROR", "Failed to connect to database", 0), Line("ERROR", "Error deleting processed records", 0)>>]
           [] outcome = "execute_fail" ->
                [store |-> st, ops |-> <<"connect", "delete_failed">>, raised |-> FALSE,
                 log |-> <<Line("INFO", "Database connection established successfully", 0), Line("ERROR", "Error deleting processed records", 0)>>]
           [] outcome = "commit_fail" ->
                [store |-> RowsAfterDelete(st, record_ids), ops |-> <<"connect", "delete", "commit_failed">>, raised |-> FALSE,
                 log |-> <<Line("INFO", "Database connection established successfully", 0), Line("ERROR", "Error deleting processed records", 0)>>]
           [] OTHER ->
                [store |-> RowsAfterDelete(st, record_ids), ops |-> <<"connect", "delete", "commit", "close">>, raised |-> FALSE,
                 log |-> <<Line("INFO", "Database connection established successfully", 0),
                           Line("INFO", "Deleted processed records", Cardinality(st \ RowsAfterDelete(st, record_ids)))>>]

\* delete_processed_records without the early return of lines 118-119: an
\* empty list reaches the store as DELETE ... WHERE id IN (), which fails
delete_processed_records_noGuard(record_ids, outcome, st) ==
  CASE outcome = "connect_fail" ->
         [store |-> st, ops |-> <<"connect_failed">>, raised |-> FALSE,
          log |-> <<Line("ERROR", "Failed to connect to database", 0), Line("ERROR", "Error deleting processed records", 0)>>]
    [] outcome = "execute_fail" \/ record_ids = <<>> ->
         [store |-> st, ops |-> <<"connect", "delete_failed">>, raised |-> FALSE,
          log |-> <<Line("INFO", "Database connection established successfully", 0), Line("ERROR", "Error deleting processed records", 0)>>]
    [] outcome = "commit_fail" ->
         [store |-> st, ops |-> <<"connect", "delete", "commit_failed">>, raised |-> FALSE,
          log |-> <<Line("INFO", "Database connection established successfully", 0), Line("ERROR", "Error deleting processed records", 0)>>]
    [] OTHER ->
         [store |-> RowsAfterDelete(st, record_ids), ops |-> <<"connect", "delete", "commit", "close">>, raised |-> FALSE,
          log |-> <<Line("INFO", "Database connection established successfully", 0),
                    Line("INFO", "Deleted processed records", Cardinality(st \ RowsAfterDelete(st, record_ids)))>>]

\* DatabaseTelegramBot.delete_processed_records
delete_processed_records(record_ids, outcome, st) ==
  IF record_ids = <<>>
    THEN [store |-> st, ops |-> <<>>, log |-> <<>>, raised |-> FALSE]
    ELSE CASE outcome = "connect_fail" ->
                [store |-> st, ops |-> <<"connect_failed">>, raised |-> FALSE,
                 log |-> <<Line("ERROR", "Failed to connect to database", 0), Line("ERROR", "Error deleting processed records", 0)>>]
           [] outcome = "execute_fail" ->
                [store |-> st, ops |-> <<"connect", "delete_failed">>, raised |-> FALSE,
                 log |-> <<Line("INFO", "Database connection established successfully", 0), Line("ERROR", "Error deleting processed records", 0)>>]
           [] outcome = "commit_fail" ->
                [store |-> st, ops |-> <<"connect", "delete", "commit_failed">>, raised |-> FALSE,
                 log |-> <<Line("INFO", "Database connection established successfully", 0), Line("ERROR", "Error deleting processed records", 0)>>]
           [] OTHER ->
                [store |-> RowsAfterDelete(st, record_ids), ops |-> <<"connect", "delete", "commit", "close">>, raised |-> FALSE,
                 log |-> <<Line("INFO", "Database connection established successfully", 0),
                           Line("INFO", "Deleted processed records", Cardinality(st \ RowsAfterDelete(st, record_ids)))>>]

\* ------------------------------------------------------------ relay cycle
\* send_telegram_message returns True ("ok"), returns False after a
\* RequestException ("fail"), or lets another exception through ("raise")
SendOutcomes == {"ok", "fail", "raise"}

\* what requests.post meets: an HTTP status, a timeout, a connection error,
\* or an exception that is no RequestException
StatusCodes == {200, 302, 400, 404, 500}

Responses ==
  {[kind |-> "status", code |-> c] : c \in StatusCodes}
    \cup {[kind |-> k, code |-> 0] : k \in {"timeout", "connection_error", "other_exception"}}

\* response.raise_for_status(): HTTPError for 4xx and 5xx
raise_for_status(resp) == resp.kind = "status" /\ 400 <= resp.code /\ resp.code < 600

\* chat_id = chat_id or self.telegram_chat_id
effective_chat_id(chat_id, configured) == IF chat_id = NoneVal \/ chat_id = <<>> THEN configured ELSE chat_id

\* send_telegram_message without response.raise_for_status()
send_telegram_message_noStatusCheck(resp) ==
  CASE resp.kind = "status" -> [outcome |-> "ok", posts |-> 1]
    [] resp.kind \in {"timeout", "connection_error"} -> [outcome |-> "fail", posts |-> 1]
    [] OTHER -> [outcome |-> "raise", posts |-> 1]

\* DatabaseTelegramBot.send_telegram_message: one requests.post, then True
\* ("ok"), False after a RequestException ("fail"), or the exception of
\* another kind passed on ("raise")
send_telegram_message(resp) ==
  CASE resp.kind = "status" /\ ~raise_for_status(resp) -> [outcome |-> "ok", posts |-> 1]
    [] resp.kind \in {"status", "timeout", "connection_error"} -> [outcome |-> "fail", posts |-> 1]
    [] OTHER -> [outcome |-> "raise", posts |-> 1]

\* `if records is None`: an empty batch is not recognised
NoRecords_never(recs) == FALSE

\* line 164: `if not records`
NoRecords(recs) == recs = <<>>

\* the delete step without its guard
ShouldDelete_always(ids) == TRUE

\* line 187: `if successful_ids`
ShouldDelete(ids) == ids # <<>>

\* lines 183-184: the handler of the per-record try; reading record[0] for
\* the log line raises IndexError on a record without fields, and that
\* exception leaves the for loop
record_handler(record, ids, lines) ==
  IF Len(record) >= 1
    THEN [ids |-> ids, log |-> lines \o <<Line("ERROR", "Error processing record", record[1])>>, escaped |-> FALSE]
    ELSE [ids |-> ids, log |-> lines, escaped |-> TRUE]

\* process_record with the identifier recorded whatever the send returned
process_record_appendAlways(record, outcome, ids) ==
  CASE outcome \in {"ok", "fail"} ->
         IF Len(record) >= 1
           THEN [ids |-> Append(ids, record[1]), log |-> <<Line("INFO", "Message sent successfully", 0)>>, escaped |-> FALSE]
           ELSE record_handler(record, ids, <<Line("INFO", "Message sent successfully", 0)>>)
    [] OTHER -> record_handler(record, ids, <<>>)

\* process_record with a failed send leaving the for loop
process_record_failAborts(record, outcome, ids) ==
  CASE outcome = "ok" ->
         IF Len(record) >= 1
           THEN [ids |-> Append(ids, record[1]), log |-> <<Line("INFO", "Message sent successfully", 0)>>, escaped |-> FALSE]
           ELSE record_handler(record, ids, <<Line("INFO", "Message sent successfully", 0)>>)
    [] outcome = "fail" ->
         [ids |-> ids, escaped |-> TRUE, log |-> <<Line("ERROR", "Failed to send Telegram message", 0)>>]
    [] OTHER -> record_handler(record, ids, <<>>)

\* lines 171-184: the body of the for loop for one record and one outcome of
\* the send
process_record(record, outcome, ids) ==
  CASE outcome = "ok" ->
         IF Len(record) >= 1
           THEN [ids |-> Append(ids, record[1]), log |-> <<Line("INFO", "Message sent successfully", 0)>>, escaped |-> FALSE]
           ELSE record_handler(record, ids, <<Line("INFO", "Message sent successfully", 0)>>)
    [] outcome = "fail" ->
         IF Len(record) >= 1
           THEN [ids |-> ids, escaped |-> FALSE,
                 log |-> <<Line("ERROR", "Failed to send Telegram message", 0), Line("WARNING", "Failed to send message for record ID", record[1])>>]
           ELSE record_handler(record, ids, <<Line("ERROR", "Failed to send Telegram message", 0)>>)
    [] OTHER -> record_handler(record, ids, <<>>)

\* a failed send tried again instead of moving to the next record
next_index_retries(i, outcome) == IF outcome = "fail" THEN i ELSE i + 1

\* line 170: the for loop moves to the next record whatever the send did
next_index(i, outcome) == i + 1

\* the for loop left after its first record
LoopPc_stopsAfterFirst(i, recs) == IF i > 1 THEN "delete" ELSE "send"

\* the for loop stopping one record early
LoopPc_skipsLast(i, recs) == IF i >= Len(recs) THEN "delete" ELSE "send"

\* position after the for loop has advanced to index i
LoopPc(i, recs) == IF i > Len(recs) THEN "delete" ELSE "send"

\* __main__: bot = DatabaseTelegramBot()
Construct ==
  /\ pc = "unbuilt"
  /\ LET b == __init__(env)
     IN IF b.ok
          THEN pc' = "cycle_start" /\ poll_interval' = b.poll_interval /\ error' = NoError
          ELSE pc' = "config_error" /\ error' = b.error /\ UNCHANGED poll_interval
  /\ UNCHANGED <<env, store, locals, history, sentCount>>

\* process_messages, lines 161-168: fetch, and return at once on no records
Fetch(outcome) ==
  /\ pc = "cycle_start"
  /\ \E order \in (IF outcome = "ok" THEN Perms(store) ELSE {<<>>}) :
       LET f == fetch_pending_messages(outcome, order)
       IN /\ fetched' = f.records
          /\ dbops' = f.ops
          /\ \E open \in {StillOpen(f.ops, collected) : collected \in BOOLEAN} : unclosed' = open
          /\ IF f.raised
               THEN /\ log' = f.log \o <<Line("ERROR", "Error in process_messages", 0)>>
                    /\ pc' = "sleep" /\ records' = <<>> /\ idx' = 0
               ELSE /\ log' = f.log
                    /\ IF NoRecords(f.records)
                         THEN pc' = "sleep" /\ records' = <<>> /\ idx' = 0
                         ELSE pc' = LoopPc(1, f.records) /\ records' = f.records /\ idx' = 1
  /\ successful_ids' = <<>>
  /\ results' = <<>>
  /\ deleteCalls' = <<>>
  /\ slept' = <<>>
  /\ UNCHANGED <<env, error, poll_interval, store, sentCount>>

\* process_messages, lines 170-184 (and 191-192 when the handler itself
\* raises): one iteration of the for loop
Send(outcome) ==
  /\ pc = "send"
  /\ idx <= Len(records)
  /\ LET record == records[idx]
         msg == format_message(record)
         step == process_record(record, outcome, successful_ids)
     IN /\ IF outcome = "ok"
             THEN sentCount[msg] < MaxSends /\ sentCount' = [sentCount EXCEPT ![msg] = @ + 1]
             ELSE UNCHANGED sentCount
        /\ results' = Append(results, [record |-> record, outcome |-> outcome])
        /\ IF step.escaped
             THEN /\ log' = log \o step.log \o <<Line("ERROR", "Error in process_messages", 0)>>
                  /\ pc' = "sleep"
                  /\ records' = <<>> /\ idx' = 0 /\ successful_ids' = <<>>
             ELSE /\ log' = log \o step.log
                  /\ pc' = LoopPc(next_index(idx, outcome), records)
                  /\ idx' = next_index(idx, outcome)
                  /\ successful_ids' = step.ids
                  /\ UNCHANGED records
  /\ UNCHANGED <<env, error, poll_interval, store, fetched, deleteCalls, dbops, unclosed, slept>>

\* process_messages, lines 186-192: delete what was sent, log the summary
Delete(outcome) ==
  /\ pc = "delete"
  /\ IF ShouldDelete(successful_ids)
       THEN LET d == delete_processed_records(successful_ids, outcome, store)
            IN /\ store' = d.store
               /\ dbops' = dbops \o d.ops
               /\ \E open \in {StillOpen(d.ops, collected) : collected \in BOOLEAN} : unclosed' = unclosed + open
               /\ deleteCalls' = Append(deleteCalls, successful_ids)
               /\ log' = log \o d.log \o
                           (IF d.raised THEN <<Line("ERROR", "Error in process_messages", 0)>>
                                        ELSE <<Line("INFO", "Processing cycle completed. Sent", Len(successful_ids))>>)
       ELSE UNCHANGED <<store, dbops, deleteCalls, log, unclosed>>
  /\ pc' = "sleep"
  /\ records' = <<>> /\ idx' = 0 /\ successful_ids' = <<>>
  /\ UNCHANGED <<env, error, poll_interval, fetched, results, slept, sentCount>>

\* an interrupt that first deletes what the cycle has sent so far
Interrupt_flushes ==
  /\ pc \in {"cycle_start", "send", "delete", "sleep"}
  /\ pc' = "stopped"
  /\ store' = RowsAfterDelete(store, successful_ids)
  /\ deleteCalls' = IF successful_ids = <<>> THEN deleteCalls ELSE Append(deleteCalls, successful_ids)
  /\ log' = log \o <<Line("INFO", "Received shutdown signal", 0), Line("INFO", "Application stopped", 0)>>
  /\ records' = <<>> /\ idx' = 0 /\ successful_ids' = <<>>
  /\ UNCHANGED <<env, error, poll_interval, fetched, results, dbops, unclosed, slept, sentCount>>

\* run() going on to the next cycle without sleeping
sleep_between_cycles_spins(interval) == [raised |-> FALSE, slept |-> <<>>]

\* run, line 202: time.sleep(self.poll_interval), which raises ValueError
\* on a negative length and otherwise sleeps that long
sleep_between_cycles(interval) ==
  IF interval < 0 THEN [raised |-> TRUE, slept |-> <<>>] ELSE [raised |-> FALSE, slept |-> <<interval>>]

\* run, lines 202 and 207-209: the ValueError of the sleep in the try is
\* caught and logged, and the sleep in the handler raises it again, out of
\* run()
Sleep ==
  /\ pc = "sleep"
  /\ LET z == sleep_between_cycles(poll_interval)
     IN /\ slept' = slept \o z.slept
        /\ IF z.raised
             THEN /\ pc' = "crashed"
                  /\ error' = [type |-> "ValueError: sleep length must be non-negative", missing |-> <<>>]
                  /\ log' = log \o <<Line("ERROR", "Unexpected error in main loop", 0)>>
             ELSE /\ pc' = "cycle_start"
                  /\ UNCHANGED <<error, log>>
  /\ UNCHANGED <<env, poll_interval, store, locals, fetched, results, deleteCalls, dbops, unclosed, sentCount>>

\* run, lines 204-206 and 211: KeyboardInterrupt is no Exception, so it
\* passes every handler of the cycle and ends the loop
Interrupt ==
  /\ pc \in {"cycle_start", "send", "delete", "sleep"}
  /\ pc' = "stopped"
  /\ log' = log \o <<Line("INFO", "Received shutdown signal", 0), Line("INFO", "Application stopped", 0)>>
  /\ records' = <<>> /\ idx' = 0 /\ successful_ids' = <<>>
  /\ UNCHANGED <<env, error, poll_interval, store, fetched, results, deleteCalls, dbops, unclosed, slept, sentCount>>

\* ---------------------------------------------------------- specifications
InitCommon ==
  /\ pc = "unbuilt"
  /\ error = NoError
  /\ poll_interval = 0
  /\ records = <<>> /\ idx = 0 /\ successful_ids = <<>>
  /\ fetched = <<>> /\ results = <<>> /\ deleteCalls = <<>> /\ dbops = <<>> /\ log = <<>>
  /\ unclosed = 0 /\ slept = <<>>
  /\ sentCount = [m \in Messages |-> 0]

\* the process as started: any environment, any set of four-column rows
Init ==
  /\ InitCommon
  /\ env \in AllEnvs
  /\ store \in SUBSET Rows4

Next ==
  \/ Construct
  \/ \E outcome \in FetchOutcomes : Fetch(outcome)
  \/ \E outcome \in {send_telegram_message(resp).outcome : resp \in Responses} : Send(outcome)
  \/ \E outcome \in DeleteOutcomes : Delete(outcome)
  \/ Sleep
  \/ Interrupt

Spec == Init /\ [][Next]_vars

\* a started process whose fetch yields rows of any width: the batch
\* process_messages is given then holds records with fewer than four
\* fields, or none
ValidEnv == [n \in EnvNames |-> IF n = "POLL_INTERVAL" THEN NoneVal ELSE <<"x">>]

MaxRows == 2

InitShapes ==
  /\ InitCommon
  /\ env = ValidEnv
  /\ store \in {st \in SUBSET RowsAnyShape : Cardinality(st) <= MaxRows}

SpecShapes == InitShapes /\ [][Next]_vars

\* delete_processed_records called on its own with the identifier list
\* deleteCalls[1], which may be empty
CallDelete(outcome) ==
  /\ pc = "call_delete"
  /\ LET d == delete_processed_records(deleteCalls[1], outcome, store)
     IN /\ store' = d.store
        /\ dbops' = d.ops
        /\ log' = d.log
        /\ error' = IF d.raised THEN [type |-> "Exception", missing |-> <<>>] ELSE NoError
        /\ \E collected \in BOOLEAN : unclosed' = StillOpen(d.ops, collected)
  /\ pc' = "returned"
  /\ UNCHANGED <<env, poll_interval, locals, fetched, results, deleteCalls, slept, sentCount>>

InitDelete ==
  /\ pc = "call_delete"
  /\ env = ValidEnv
  /\ error = NoError
  /\ poll_interval = 30
  /\ store \in SUBSET Rows4
  /\ deleteCalls \in {<<ids>> : ids \in SeqsUpTo(Ids, MaxCallLen)}
  /\ records = <<>> /\ idx = 0 /\ successful_ids = <<>>
  /\ fetched = <<>> /\ results = <<>> /\ dbops = <<>> /\ log = <<>>
  /\ unclosed = 0 /\ slept = <<>>
  /\ sentCount = [m \in Messages |-> 0]

NextDelete == \E outcome \in DeleteOutcomes : CallDelete(outcome)

SpecDelete == InitDelete /\ [][NextDelete]_vars

\* send_telegram_message called on its own with the text of one record, a
\* chat_id argument and whatever the endpoint answers
ChatArgs == {NoneVal, <<>>, <<"c">>}

CallSend(record, chat_id, resp) ==
  /\ pc = "call_send"
  /\ LET r == send_telegram_message(resp)
         msg == format_message(record)
     IN /\ results' = <<[record |-> record, outcome |-> r.outcome, posts |-> r.posts, response |-> resp,
                         chat_id |-> effective_chat_id(chat_id, env["TELEGRAM_CHAT_ID"])]>>
        /\ sentCount' = IF r.outcome = "ok" THEN [sentCount EXCEPT ![msg] = @ + 1] ELSE sentCount
        /\ error' = IF r.outcome = "raise" THEN [type |-> "Exception", missing |-> <<>>] ELSE NoError
        /\ log' = IF r.outcome = "ok" THEN <<Line("INFO", "Message sent successfully", 0)>>
                  ELSE IF r.outcome = "fail" THEN <<Line("ERROR", "Failed to send Telegram message", 0)>>
                  ELSE <<>>
  /\ pc' = "returned"
  /\ UNCHANGED <<env, poll_interval, store, locals, fetched, deleteCalls, dbops, unclosed, slept>>

InitSend ==
  /\ pc = "call_send"
  /\ env = ValidEnv
  /\ error = NoError
  /\ poll_interval = 30
  /\ store = {}
  /\ records = <<>> /\ idx = 0 /\ successful_ids = <<>>
  /\ fetched = <<>> /\ results = <<>> /\ deleteCalls = <<>> /\ dbops = <<>> /\ log = <<>>
  /\ unclosed = 0 /\ slept = <<>>
  /\ sentCount = [m \in Messages |-> 0]

NextSend == \E record \in RowsAnyShape, chat_id \in ChatArgs, resp \in Responses : CallSend(record, chat_id, resp)

SpecSend == InitSend /\ [][NextSend]_vars

\* the steps of the process itself; the interrupt comes from outside
Step ==
  \/ Construct
  \/ \E outcome \in FetchOutcomes : Fetch(outcome)
  \/ \E outcome \in {send_telegram_message(resp).outcome : resp \in Responses} : Send(outcome)
  \/ \E outcome \in DeleteOutcomes : Delete(outcome)
  \/ Sleep

\* the send of record r succeeds
SendOk(r) == Send("ok") /\ records[idx] = r

\* the process started with every required variable set, and the poll
\* interval left at its default or set to a negative number
InitConfigured ==
  /\ Init
  /\ \A i \in 1..Len(required_vars) : env[required_vars[i]] = <<"x">>
  /\ env["POLL_INTERVAL"] \in {NoneVal, <<"-", "5">>}

\* the single thread keeps executing until it is interrupted; a fetch that
\* is tried again and again eventually succeeds, and so does the send of
\* each record
LiveSpec ==
  /\ InitConfigured
  /\ [][Next]_vars
  /\ WF_vars(Step)
  /\ SF_vars(Fetch("ok"))
  /\ \A r \in Rows4 : SF_vars(SendOk(r))

\* ------------------------------------------------------------- properties
\* the history variables describe a cycle that has returned to run()
CycleEnded == pc \in {"sleep", "cycle_start", "crashed"}

Last(s) == s[Len(s)]

\* identifiers of the records whose send returned success, in send order
OkIds(res) ==
  LET oks == SelectSeq(res, LAMBDA a : a.outcome = "ok" /\ Len(a.record) >= 1)
  IN [i \in 1..Len(oks) |-> oks[i].record[1]]

AllAttempted == Len(results) = Len(fetched) /\ \A i \in 1..Len(results) : results[i].record = fetched[i]

FailedDbOps == {"connect_failed", "delete_failed", "commit_failed"}

HasLine(text) == \E i \in 1..Len(log) : log[i].text = text

\* C1: a cycle that fetched M records of which N sends returned success
\* calls delete_processed_records with exactly the identifiers of those N
\* records, in the order the sends succeeded, and with no identifier of a
\* record whose send failed (no call when N = 0).
C1_DeleteExactlySuccesses ==
  /\ \A k \in 1..Len(deleteCalls) : deleteCalls[k] = OkIds(results)
  /\ CycleEnded => deleteCalls = (IF OkIds(results) = <<>> THEN <<>> ELSE <<OkIds(results)>>)

C1_Witness ==
  /\ pc = "sleep"
  /\ Len(fetched) = 2 /\ Len(results) = 2
  /\ results[1].outcome = "fail" /\ results[2].outcome = "ok"
  /\ deleteCalls = << <<results[2].record[1]>> >>

\* C2: when a send returns false for one record, every later record of the
\* fetched batch still gets its send attempt in that cycle.
C2_FailureDoesNotStopBatch ==
  (CycleEnded /\ \E i \in 1..Len(results) : results[i].outcome = "fail") => AllAttempted

C2_Witness ==
  /\ pc = "delete"
  /\ Len(fetched) = 2 /\ Len(results) = 2
  /\ results[1].outcome = "fail"
  /\ results[2].record = fetched[2]

\* C3: an error while processing one record, of any shape, is caught and
\* logged with the identifier of the record, the remaining records are
\* still attempted and the identifiers sent so far are passed to delete.
C3_BadRecordNeverAbortsCycle ==
  CycleEnded =>
    /\ ~HasLine("Error in process_messages")
    /\ AllAttempted
    /\ OkIds(results) # <<>> => deleteCalls = <<OkIds(results)>>

\* C4: a failure of the delete step does not raise out of
\* delete_processed_records or the cycle; the rows stay in the store, the
\* cycle ends normally and keeps nothing in memory.
C4_DeleteFailureSwallowed ==
  [][(pc = "delete" /\ dbops' # dbops /\ Last(dbops') \in FailedDbOps) =>
       /\ store' = store
       /\ pc' = "sleep"
       /\ error' = error
       /\ records' = <<>> /\ successful_ids' = <<>>
       /\ Last(log').text = "Processing cycle completed. Sent"
       /\ \A i \in 1..Len(log') : log'[i].text # "Error in process_messages"]_vars

C4_Witness ==
  /\ pc = "sleep"
  /\ Len(deleteCalls) = 1
  /\ Last(dbops) = "commit_failed"
  /\ \A i \in 1..Len(results) : results[i].outcome = "ok" => results[i].record \in store
  /\ successful_ids = <<>>

\* the fetch of this step succeeded
FetchSucceeds == pc = "cycle_start" /\ pc' # "stopped" /\ dbops' = <<"connect", "select", "close">>

\* C5: a record whose send succeeded stays in the store as long as no
\* delete was committed in its cycle, and a successful fetch returns every
\* row of the store, sent before or not: the message is sent again, so one
\* message is delivered more than once.
C5_UndeletedRecordIsResent ==
  /\ [](\A i \in 1..Len(results) :
          (results[i].outcome = "ok" /\ "commit" \notin Range(dbops)) => results[i].record \in store)
  /\ [][FetchSucceeds => (Range(fetched') = store /\ records' = fetched')]_vars

C5_Witness ==
  \E r \in store : pc = "delete" /\ sentCount[format_message(r)] = 2 /\ r \in Range(records)

\* the cycle that ended attempted every fetched record and every send failed
AllSendsFailed ==
  /\ fetched # <<>>
  /\ AllAttempted
  /\ \A i \in 1..Len(results) : results[i].outcome = "fail"

\* C6: a cycle in which every send fails never calls
\* delete_processed_records and leaves the store as it was fetched; the
\* next successful fetch returns the same records again.
C6_AllFailedKeepsRecords ==
  /\ []((CycleEnded /\ AllSendsFailed) =>
          /\ deleteCalls = <<>>
          /\ "delete" \notin Range(dbops)
          /\ Range(fetched) = store)
  /\ [][(AllSendsFailed /\ FetchSucceeds) => (Range(fetched') = Range(fetched) /\ pc' = "send")]_vars

C6_Witness ==
  /\ pc = "sleep"
  /\ AllSendsFailed
  /\ Len(fetched) = 2
  /\ dbops = <<"connect", "select", "close">>

\* C7: a cycle whose fetch yields no rows (empty view, failed connection
\* or failed query) ends there: no send, no delete, store unchanged.
C7_EmptyFetchIsNoOp ==
  /\ [][(pc = "cycle_start" /\ pc' # "stopped" /\ fetched' = <<>>) =>
          /\ pc' = "sleep"
          /\ store' = store
          /\ sentCount' = sentCount
          /\ results' = <<>> /\ deleteCalls' = <<>>
          /\ "delete" \notin Range(dbops')]_vars
  /\ []((CycleEnded /\ fetched = <<>>) => (results = <<>> /\ deleteCalls = <<>> /\ "delete" \notin Range(dbops)))

C7_Witness ==
  /\ pc = "sleep"
  /\ fetched = <<>>
  /\ store # {}
  /\ Last(dbops) = "select_failed"

\* C8: delete_processed_records called with an empty identifier sequence
\* opens no connection, executes and commits nothing, changes no row and
\* returns without error.
C8_DeleteEmptyIsNoOp ==
  [][(pc = "call_delete" /\ deleteCalls[1] = <<>>) =>
       /\ pc' = "returned"
       /\ dbops' = <<>>
       /\ store' = store
       /\ log' = <<>>
       /\ error' = NoError]_vars

C8_Witness ==
  /\ pc = "returned"
  /\ deleteCalls = << <<>> >>
  /\ store # {}
  /\ dbops = <<>>

Sent(r) == sentCount[format_message(r)] >= 1

LoopRuns == pc \notin {"stopped", "crashed", "config_error"}

\* C9: no row leaves the store before a send of it has succeeded; and as
\* long as the scheduler loop keeps running, with fetches and the send of
\* each record eventually succeeding, the view again and again holds no
\* row that has not been sent successfully (so every row of the view is
\* eventually sent).
C9_AtLeastOnce ==
  /\ [][\A r \in store \ store' : Sent(r)]_vars
  /\ []<>(~LoopRuns \/ \A r \in store : Sent(r))

C9_Witness ==
  \E r \in Rows4 : pc = "cycle_start" /\ r \notin store /\ Sent(r) /\ Len(deleteCalls) = 1

\* C10: construction succeeds whenever the six required variables are set
\* and non-empty, and otherwise fails with an error naming exactly the
\* missing ones, whatever the optional settings are.
C10_ConstructionNamesMissing ==
  LET missing == {v \in Range(required_vars) : env[v] \in {NoneVal, <<>>}}
  IN pc # "unbuilt" =>
       /\ missing = {} => pc # "config_error"
       /\ missing # {} => (pc = "config_error" /\ Range(error.missing) = missing)

\* C11: whenever the program is not inside a fetch or delete call, no
\* connection opened by such a call is still open, on every path including
\* a failing query, DELETE statement or commit.
C11_NoConnectionLeftOpen == unclosed = 0

\* the fetch of this step failed to connect or to query
FetchFails == pc = "cycle_start" /\ pc' # "stopped" /\ dbops' # <<"connect", "select", "close">>

\* C12: fetch_pending_messages never raises: on a failed connection or a
\* failed query it returns the empty sequence, and the cycle treats it as
\* no pending records.
C12_FetchNeverRaises ==
  [][FetchFails =>
       /\ fetched' = <<>>
       /\ pc' = "sleep"
       /\ error' = error
       /\ store' = store
       /\ Last(log').text = "Error fetching messages"
       /\ \A i \in 1..Len(log') : log'[i].text # "Error in process_messages"]_vars

C12_Witness ==
  /\ pc = "sleep"
  /\ store # {}
  /\ dbops = <<"connect_failed">>
  /\ fetched = <<>> /\ results = <<>>

\* C13: once construction has succeeded, for any accepted configuration,
\* run() ends only on an interrupt: nothing surfaces as a crash.
C13_LoopEndsOnlyOnInterrupt == pc # "crashed"

\* C14: two cycles never run back to back: when a cycle starts after an
\* earlier one, run() has slept the configured poll interval, exactly once,
\* since that cycle ended.
C14_SleepBetweenCycles ==
  /\ (pc = "cycle_start" /\ dbops # <<>>) => slept = <<poll_interval>>
  /\ pc \in {"send", "delete", "sleep"} => slept = <<>>

C14_Witness ==
  /\ pc = "cycle_start"
  /\ dbops # <<>>
  /\ poll_interval > 0
  /\ slept = <<poll_interval>>

\* C15 as claimed: the loop stops only after the cycle in progress has run
\* to completion, every fetched record attempted and the identifiers sent
\* passed to delete.
C15_InterruptWaitsForCycle ==
  pc = "stopped" =>
    /\ AllAttempted
    /\ OkIds(results) # <<>> => deleteCalls = <<OkIds(results)>>

ShutdownLines == <<Line("INFO", "Received shutdown signal", 0), Line("INFO", "Application stopped", 0)>>

\* C15 as amended: an interrupt stops the loop at once, mid-cycle too, with
\* the shutdown logged; no further record is attempted, no delete is
\* performed and the store is left as it is.
C15_InterruptStopsAtOnce ==
  [][(pc # "stopped" /\ pc' = "stopped") =>
       /\ log' = log \o ShutdownLines
       /\ store' = store
       /\ results' = results
       /\ deleteCalls' = deleteCalls
       /\ dbops' = dbops
       /\ sentCount' = sentCount]_vars

C15_Witness ==
  /\ pc = "stopped"
  /\ Len(fetched) = 2 /\ Len(results) = 1
  /\ results[1].outcome = "ok"
  /\ deleteCalls = <<>>
  /\ results[1].record \in store
  /\ Last(log).text = "Application stopped"

IsNetworkFailure(resp) ==
  \/ resp.kind \in {"timeout", "connection_error"}
  \/ resp.kind = "status" /\ resp.code >= 400

\* C16: one invocation of send_telegram_message makes one outbound call; it
\* returns true only for a non-error status, and on a network error, an
\* error status or a timeout it returns false and raises nothing.
C16_SendReturnsBoolean ==
  (pc = "returned" /\ results # <<>>) =>
    LET a == results[1]
    IN /\ a.posts = 1
       /\ a.outcome = "ok" => (a.response.kind = "status" /\ a.response.code < 400)
       /\ IsNetworkFailure(a.response) => (a.outcome = "fail" /\ error = NoError)

C16_Witness ==
  /\ pc = "returned"
  /\ results # <<>>
  /\ results[1].response = [kind |-> "status", code |-> 500]
  /\ results[1].outcome = "fail"
  /\ error = NoError

\* C17: within a cycle the records are attempted in the order fetched and
\* each at most once: attempt i is of fetched record i, and there are never
\* more attempts than fetched records.
C17_OneAttemptInFetchOrder ==
  /\ Len(results) <= Len(fetched)
  /\ \A i \in 1..Len(results) : results[i].record = fetched[i]

C17_Witness ==
  /\ pc = "sleep"
  /\ Len(fetched) = 2 /\ Len(results) = 2
  /\ results[1].outcome = "fail" /\ results[2].outcome = "fail"
  /\ results[1].record # results[2].record

\* C18: every cycle that fetched at least one record logs the summary with
\* the number sent, also when that number is zero.
C18_SummaryAlwaysLogged ==
  (CycleEnded /\ fetched # <<>>) => HasLine("Processing cycle completed. Sent")

FetchedIds == {fetched[i][1] : i \in 1..Len(fetched)}

\* C19: in a cycle delete_processed_records is called at most once, after the
\* last send attempt, with identifiers of records fetched in that cycle
\* only; the success list is empty when the cycle starts sending.
C19_DeleteOncePerCycle ==
  /\ Len(deleteCalls) <= 1
  /\ deleteCalls # <<>> =>
       /\ pc \notin {"send", "delete"}
       /\ AllAttempted
       /\ Range(deleteCalls[1]) \subseteq FetchedIds
  /\ Range(successful_ids) \subseteq FetchedIds
  /\ (pc = "send" /\ results = <<>>) => successful_ids = <<>>

C19_Witness ==
  /\ pc = "send"
  /\ results = <<>> /\ successful_ids = <<>> /\ deleteCalls = <<>>
  /\ \E r \in Rows4 : r \notin store /\ Sent(r)

====
